---------------------------- MODULE Spec2Model ----------------------------
(***************************************************************************)
(* homelab-smoke: the check execution and classification engine.           *)
(*                                                                         *)
(*   engine   - ClassifyResult, Outcome.IsBlocking, CheckResult.ShouldRetry*)
(*   validate - Output                                                     *)
(*   exec     - RunCommand, RunWithRetry, shouldRetry, RunScript           *)
(*   runner   - Runner.Run, executeCheck, sortByLayer, RunResult.ExitCode, *)
(*              buildScriptCommand, shellQuote                             *)
(*                                                                         *)
(* Strings a function only carries along are TLA+ strings; strings a       *)
(* function looks into (captured output, validation literals) are          *)
(* sequences of one-character strings.                                     *)
(***************************************************************************)
EXTENDS Integers, Sequences, FiniteSets, TLC

VARIABLES
    Config,       \* Runner.Config.Checks, the declared check list
    rMaxRetries,  \* Runner.MaxRetries
    pc,           \* position of main and Runner.Run: "validate", "exit2" (main has
                  \* exited with 2 before any run), "start", "loop", "exec", "done";
                  \* "off" when no run is modelled
    checks,       \* Run's local: the sorted copy of the check list
    idx,          \* Run's loop position in checks (1-based)
    result,       \* Run's *RunResult
    started,      \* history: names of the checks handed to executeCheck, in order
    epc,          \* position of the executor: "idle", "call", "script" (a RunScript
                  \* call is pending), "running", "wait", "returned"
    call,         \* arguments of the executor call in flight: [retry, timeout,
                  \* maxRetries, retryDelay]; retry says RunWithRetry, else RunCommand
    maxRetries,   \* RunWithRetry's maxRetries once clamped
    retryDelay,   \* RunWithRetry's retryDelay once defaulted
    attempts,     \* RunWithRetry's attempts counter
    cmdResult,    \* RunWithRetry's result variable (last CommandResult)
    ret,          \* what a stand-alone executor call returned: <<>> or <<[res, attempts]>>
    cancelled,    \* the governing context is done
    trace,        \* history: events of the executor call in flight
    cin,          \* pure function under test (ClassifyResult, validate.Output,
                  \* shellQuote): its arguments
    cout          \* pure function under test: <<>> or <<what it returned>>

vars == <<Config, rMaxRetries, pc, checks, idx, result, started, epc, call,
          maxRetries, retryDelay, attempts, cmdResult, ret, cancelled,
          trace, cin, cout>>

runVars == <<Config, rMaxRetries, pc, checks, idx, result, started>>
execVars == <<epc, call, maxRetries, retryDelay, attempts, cmdResult, ret, trace>>
classVars == <<cin, cout>>

----------------------------------------------------------------------------
(* Bounds of the model.                                                    *)

MaxChecks == 2        \* longest check list over all check shapes
MaxPlainChecks == 3   \* longest check list over the plain check shapes
MaxLayer == 1         \* layers are 0..MaxLayer
MaxExit == 5          \* process exit codes are 0..MaxExit
MaxRetriesArg == 2    \* largest maxRetries handed to a stand-alone RunWithRetry
MaxRunnerRetries == 1 \* largest Runner.MaxRetries
MaxLoadedChecks == 2  \* longest check list handed to Config.Validate
MaxTokenLen == 4      \* longest script argument, in characters

----------------------------------------------------------------------------
(* engine: outcomes and the exit code contract.                            *)

OutcomePass == "PASS"
OutcomeFail == "FAIL"
OutcomeError == "ERROR"
OutcomeSkip == "SKIP"
OutcomeWarn == "WARN"

ExitPass == 0
ExitFail == 1
ExitError == 2
ExitSkip == 3
ExitWarn == 4

\* A Go error value: nil, or an error of some kind carrying its argument.
ErrNil == [kind |-> "nil", arg |-> ""]
Err(kind, arg) == [kind |-> kind, arg |-> arg]

\* OutcomeFromExitCode with FAIL in the default arm
OutcomeFromExitCodeDefaultFail(code) ==
    CASE code = ExitPass -> OutcomePass
      [] code = ExitFail -> OutcomeFail
      [] code = ExitError -> OutcomeError
      [] code = ExitSkip -> OutcomeSkip
      [] code = ExitWarn -> OutcomeWarn
      [] OTHER -> OutcomeFail

OutcomeFromExitCode(code) ==
    CASE code = ExitPass -> OutcomePass
      [] code = ExitFail -> OutcomeFail
      [] code = ExitError -> OutcomeError
      [] code = ExitSkip -> OutcomeSkip
      [] code = ExitWarn -> OutcomeWarn
      [] OTHER -> OutcomeError

\* IsBlocking with ERROR blocking only when gating
IsBlockingGatedError(o, gating) ==
    CASE o = OutcomeError -> gating
      [] o = OutcomeFail -> gating
      [] OTHER -> FALSE

IsBlocking(o, gating) ==
    CASE o = OutcomeError -> TRUE
      [] o = OutcomeFail -> gating
      [] OTHER -> FALSE

IsGatingFailure(r) == IsBlocking(r.Outcome, r.Gating)

\* strings.Join(msgs, "; ") behind "validation failed: ", kept as the list of
\* its pieces.
RECURSIVE JoinMsgs(_)
JoinMsgs(errs) ==
    IF Len(errs) = 0 THEN <<>>
    ELSE IF Len(errs) = 1 THEN <<errs[1]>>
    ELSE <<errs[1], "; ">> \o JoinMsgs(Tail(errs))

formatValidationFailure(validationErrors) ==
    IF Len(validationErrors) = 1
    THEN <<"validation failed: ", validationErrors[1]>>
    ELSE <<"validation failed: ">> \o JoinMsgs(validationErrors)

\* The CheckResult literal ClassifyResult starts from
newCheckResult(exitCode, execErr, validationErrors, gating) ==
    [Output |-> <<>>,
     ExitCode |-> exitCode,
     ExecutionError |-> execErr,
     ValidationErrors |-> validationErrors,
     RetryCount |-> 0,
     Outcome |-> "",
     Gating |-> gating,
     OutcomeReason |-> <<>>]

\* exitCodeReason with no text for an exit code outside the contract
exitCodeReasonContractOnly(o, exitCode) ==
    CASE o = OutcomePass -> <<"check passed">>
      [] o = OutcomeFail -> <<"check failed (exit code 1)">>
      [] o = OutcomeError /\ exitCode = ExitError -> <<"script error (exit code 2)">>
      [] o = OutcomeSkip -> <<"check skipped (not applicable)">>
      [] o = OutcomeWarn -> <<"warning (non-blocking)">>
      [] OTHER -> <<>>

\* ClassifyResult's switch on the outcome of an exit code
exitCodeReason(o, exitCode) ==
    CASE o = OutcomePass -> <<"check passed">>
      [] o = OutcomeFail -> <<"check failed (exit code 1)">>
      [] o = OutcomeError ->
           IF exitCode = ExitError
           THEN <<"script error (exit code 2)">>
           ELSE <<"unexpected exit code ", ToString(exitCode), " (treated as ERROR)">>
      [] o = OutcomeSkip -> <<"check skipped (not applicable)">>
      [] o = OutcomeWarn -> <<"warning (non-blocking)">>
      [] OTHER -> <<>>

executionFailedReason(execErr) == <<"execution failed: ", execErr.kind, execErr.arg>>

\* ClassifyResult looking at the validation errors before the execution error
ClassifyResultValidationFirst(exitCode, execErr, validationErrors, gating) ==
    LET base == newCheckResult(exitCode, execErr, validationErrors, gating)
        o == OutcomeFromExitCode(exitCode)
    IN  IF exitCode = ExitPass /\ Len(validationErrors) > 0
        THEN [base EXCEPT !.Outcome = OutcomeFail,
                          !.OutcomeReason = formatValidationFailure(validationErrors)]
        ELSE IF execErr # ErrNil
        THEN [base EXCEPT !.Outcome = OutcomeError,
                          !.OutcomeReason = executionFailedReason(execErr)]
        ELSE [base EXCEPT !.Outcome = o, !.OutcomeReason = exitCodeReason(o, exitCode)]

\* ClassifyResult without the validation override
ClassifyResultNoValidation(exitCode, execErr, validationErrors, gating) ==
    LET base == newCheckResult(exitCode, execErr, validationErrors, gating)
        o == OutcomeFromExitCode(exitCode)
    IN  IF execErr # ErrNil
        THEN [base EXCEPT !.Outcome = OutcomeError,
                          !.OutcomeReason = executionFailedReason(execErr)]
        ELSE [base EXCEPT !.Outcome = o, !.OutcomeReason = exitCodeReason(o, exitCode)]

ClassifyResult(exitCode, execErr, validationErrors, gating) ==
    LET base == newCheckResult(exitCode, execErr, validationErrors, gating)
        o == OutcomeFromExitCode(exitCode)
    IN  IF execErr # ErrNil
        THEN [base EXCEPT !.Outcome = OutcomeError,
                          !.OutcomeReason = executionFailedReason(execErr)]
        ELSE IF exitCode = ExitPass /\ Len(validationErrors) > 0
        THEN [base EXCEPT !.Outcome = OutcomeFail,
                          !.OutcomeReason = formatValidationFailure(validationErrors)]
        ELSE [base EXCEPT !.Outcome = o, !.OutcomeReason = exitCodeReason(o, exitCode)]

\* ShouldRetry retrying every FAIL, validation failures included
ShouldRetryEveryFail(r) ==
    IF r.ExecutionError # ErrNil THEN TRUE
    ELSE IF r.Outcome = OutcomeFail THEN TRUE
    ELSE FALSE

ShouldRetry(r) ==
    IF r.ExecutionError # ErrNil THEN TRUE
    ELSE IF r.ExitCode = ExitFail THEN TRUE
    ELSE FALSE

----------------------------------------------------------------------------
(* validate: output postconditions.                                        *)

\* strings.Contains(s, sub)
Contains(s, sub) ==
    \E i \in 1..(Len(s) + 1) :
        /\ i + Len(sub) - 1 <= Len(s)
        /\ SubSeq(s, i, i + Len(sub) - 1) = sub

\* regexp.Compile on the dialect of literals and groups: it fails exactly on
\* unbalanced parentheses.
RECURSIVE parenDepth(_, _)
parenDepth(p, d) ==
    IF d < 0 THEN -1
    ELSE IF Len(p) = 0 THEN d
    ELSE parenDepth(Tail(p), CASE Head(p) = "(" -> d + 1
                               [] Head(p) = ")" -> d - 1
                               [] OTHER -> d)

regexpCompiles(p) == parenDepth(p, 0) = 0

\* re.MatchString(output) for a compiled pattern of that dialect: the pattern's
\* literal text occurs somewhere in output (no anchors).
regexpLiteral(p) == SelectSeq(p, LAMBDA c : c \notin {"(", ")"})
regexpMatchString(p, output) == Contains(output, regexpLiteral(p))

\* Output that stops at the first postcondition that fails
OutputShortCircuit(output, vp) ==
    IF vp = <<>> THEN <<>>
    ELSE LET v == vp[1]
         IN  IF v.Contains # <<>> /\ ~Contains(output, v.Contains)
             THEN <<"output missing required text: " \o ToString(v.Contains)>>
             ELSE IF v.NotContains # <<>> /\ Contains(output, v.NotContains)
             THEN <<"output contains forbidden text: " \o ToString(v.NotContains)>>
             ELSE IF v.Regex # <<>> /\ ~regexpCompiles(v.Regex)
             THEN <<"invalid regex " \o ToString(v.Regex)>>
             ELSE IF v.Regex # <<>> /\ ~regexpMatchString(v.Regex, output)
             THEN <<"output does not match regex: " \o ToString(v.Regex)>>
             ELSE <<>>

\* A *Validation is <<>> (nil) or <<v>>.
Output(output, vp) ==
    IF vp = <<>> THEN <<>>
    ELSE LET v == vp[1]
             e1 == IF v.Contains # <<>> /\ ~Contains(output, v.Contains)
                   THEN <<"output missing required text: " \o ToString(v.Contains)>>
                   ELSE <<>>
             e2 == IF v.NotContains # <<>> /\ Contains(output, v.NotContains)
                   THEN <<"output contains forbidden text: " \o ToString(v.NotContains)>>
                   ELSE <<>>
             e3 == IF v.Regex # <<>>
                   THEN IF ~regexpCompiles(v.Regex)
                        THEN <<"invalid regex " \o ToString(v.Regex)>>
                        ELSE IF ~regexpMatchString(v.Regex, output)
                        THEN <<"output does not match regex: " \o ToString(v.Regex)>>
                        ELSE <<>>
                   ELSE <<>>
         IN  e1 \o e2 \o e3

----------------------------------------------------------------------------
(* config: check definitions and template substitution.                    *)

\* Check.Expect is "unset" (no expect block or no gating key), "gating" or
\* "nongating".
IsGating(c) == IF c.Expect = "unset" THEN TRUE ELSE c.Expect = "gating"

GetTimeout(c, defaultTimeout) ==
    IF c.Timeout > 0 THEN c.Timeout ELSE defaultTimeout

\* Runner.Vars
Vars == [Cluster |-> "home", Namespace |-> "smoke", Context |-> "admin@home"]

\* A template text is a sequence of pieces: literal text, or one of the
\* directives below.  ApplyTemplate returns [ok, text]: the rendered pieces, or
\* the failure.
\* ApplyTemplate rendering an unresolvable reference as "<no value>"
ApplyTemplateLenient(input, tv) ==
    IF input = <<>> THEN [ok |-> TRUE, text |-> <<>>, err |-> ErrNil]
    ELSE IF \E i \in 1..Len(input) : input[i] = "{{"
    THEN [ok |-> FALSE, text |-> <<>>, err |-> Err("failed to parse template", "unclosed action")]
    ELSE [ok |-> TRUE,
          text |-> [i \in 1..Len(input) |->
                       CASE input[i] = "{{.Cluster}}" -> tv.Cluster
                         [] input[i] = "{{.Namespace}}" -> tv.Namespace
                         [] input[i] = "{{.Context}}" -> tv.Context
                         [] input[i] = "{{.Missing}}" -> "<no value>"
                         [] OTHER -> input[i]],
          err |-> ErrNil]

ApplyTemplate(input, tv) ==
    IF input = <<>> THEN [ok |-> TRUE, text |-> <<>>, err |-> ErrNil]
    ELSE IF \E i \in 1..Len(input) : input[i] = "{{"
    THEN [ok |-> FALSE, text |-> <<>>, err |-> Err("failed to parse template", "unclosed action")]
    ELSE IF \E i \in 1..Len(input) : input[i] = "{{.Missing}}"
    THEN [ok |-> FALSE, text |-> <<>>, err |-> Err("failed to execute template", "can't evaluate field Missing")]
    ELSE [ok |-> TRUE,
          text |-> [i \in 1..Len(input) |->
                       CASE input[i] = "{{.Cluster}}" -> tv.Cluster
                         [] input[i] = "{{.Namespace}}" -> tv.Namespace
                         [] input[i] = "{{.Context}}" -> tv.Context
                         [] OTHER -> input[i]],
          err |-> ErrNil]

\* A *ScriptConfig is <<>> (nil) or <<[Path, Args]>>.
ApplyTemplateToCheck(check, tv) ==
    LET cmd == ApplyTemplate(check.Command, tv)
        args == IF check.Script = <<>> THEN <<>>
                ELSE [i \in 1..Len(check.Script[1].Args) |->
                          ApplyTemplate(check.Script[1].Args[i], tv)]
        badArgs == {i \in 1..Len(args) : ~args[i].ok}
        firstBad == CHOOSE i \in badArgs : \A j \in badArgs : i <= j
    IN  IF check.Command # <<>> /\ ~cmd.ok
        THEN [ok |-> FALSE, check |-> check,
              err |-> Err("failed to apply template to command", cmd.err.kind)]
        ELSE IF badArgs # {}
        THEN [ok |-> FALSE, check |-> check,
              err |-> Err("failed to apply template to script arg " \o ToString(firstBad - 1),
                          args[firstBad].err.kind)]
        ELSE [ok |-> TRUE,
              check |-> [check EXCEPT
                            !.Command = cmd.text,
                            !.Script = IF check.Script = <<>> THEN <<>>
                                       ELSE <<[Path |-> check.Script[1].Path,
                                               Args |-> [i \in 1..Len(args) |-> args[i].text]]>>],
              err |-> ErrNil]

\* What ApplyTemplateToCheck leaves in the *ScriptConfig it was handed, which
\* the check shares with its declaration: the writes go to scriptCopy, and to
\* a fresh args slice that replaces scriptCopy.Args.
scriptAfterTemplate(script, tv) == script

\* Config.Validate's tests on the check at position i (1-based here, 0-based
\* in the message), in the order of the code
checkError(c, i) ==
    LET at == "check " \o ToString(i - 1)
    IN  IF c.Name = ""
        THEN Err(at, "missing name")
        ELSE IF c.Command = <<>> /\ c.Script = <<>>
        THEN Err(at, "must have command or script")
        ELSE IF c.Script # <<>> /\ c.Script[1].Path = ""
        THEN Err(at, "script missing path")
        ELSE IF /\ c.Validate # <<>>
                /\ c.Validate[1].Regex # <<>>
                /\ ~regexpCompiles(c.Validate[1].Regex)
        THEN Err(at, "invalid regex")
        ELSE ErrNil

\* Config.Validate: nil, or the error of the first check that fails a test
Validate(cfg) ==
    IF Len(cfg) = 0 THEN Err("no checks defined", "")
    ELSE LET bad == {i \in 1..Len(cfg) : checkError(cfg[i], i) # ErrNil}
         IN  IF bad = {} THEN ErrNil
             ELSE LET first == CHOOSE i \in bad : \A j \in bad : i <= j
                  IN  checkError(cfg[first], first)

----------------------------------------------------------------------------
(* exec: one command under a deadline.                                     *)

DefaultCommandTimeout == 30    \* seconds
DefaultRetryDelay == 2         \* seconds

\* What cmd.Run can report, as seen by RunCommand:
\*   "exited"   the shell ran and exited with code (0 gives a nil error)
\*   "signaled" the shell was killed by a signal (WaitStatus.ExitStatus() = -1)
\*   "nostatus" an ExitError whose Sys() is no syscall.WaitStatus
\*   "deadline" failed, and the deadline of RunCommand's context has passed
\*   "failed"   any other error: the shell could not be started, or the
\*              context was done before the start
\* RunCommand without the deadline test: a timeout is read off the killed
\* shell like any other exit
RunCommandNoDeadlineTest(ev, timeoutArg) ==
    LET res == [Output |-> ev.out, ExitCode |-> 0, Error |-> ErrNil]
    IN  IF ev.kind = "exited"
        THEN [res EXCEPT !.ExitCode = ev.code]
        ELSE IF ev.kind \in {"signaled", "deadline"}
        THEN [res EXCEPT !.ExitCode = -1]
        ELSE IF ev.kind = "nostatus"
        THEN [res EXCEPT !.ExitCode = 1]
        ELSE [res EXCEPT !.Error = Err("command execution failed", ev.cause),
                         !.ExitCode = -1]

\* RunCommand reporting exit statuses outside the contract as failures
RunCommandCanonicalOnly(ev, timeoutArg) ==
    LET t == IF timeoutArg <= 0 THEN DefaultCommandTimeout ELSE timeoutArg
        res == [Output |-> ev.out, ExitCode |-> 0, Error |-> ErrNil]
    IN  IF ev.kind = "exited" /\ ev.code = 0
        THEN res
        ELSE IF ev.kind = "deadline"
        THEN [res EXCEPT !.Error = Err("command timed out after", ToString(t)),
                         !.ExitCode = -1]
        ELSE IF ev.kind = "exited" /\ ev.code <= 4
        THEN [res EXCEPT !.ExitCode = ev.code]
        ELSE IF ev.kind = "signaled"
        THEN [res EXCEPT !.ExitCode = -1]
        ELSE IF ev.kind = "nostatus"
        THEN [res EXCEPT !.ExitCode = 1]
        ELSE [res EXCEPT !.Error = Err("command execution failed", ev.cause),
                         !.ExitCode = -1]

RunCommand(ev, timeoutArg) ==
    LET t == IF timeoutArg <= 0 THEN DefaultCommandTimeout ELSE timeoutArg
        res == [Output |-> ev.out, ExitCode |-> 0, Error |-> ErrNil]
    IN  IF ev.kind = "exited" /\ ev.code = 0
        THEN res
        ELSE IF ev.kind = "deadline"
        THEN [res EXCEPT !.Error = Err("command timed out after", ToString(t)),
                         !.ExitCode = -1]
        ELSE IF ev.kind = "exited"
        THEN [res EXCEPT !.ExitCode = ev.code]
        ELSE IF ev.kind = "signaled"
        THEN [res EXCEPT !.ExitCode = -1]
        ELSE IF ev.kind = "nostatus"
        THEN [res EXCEPT !.ExitCode = 1]
        ELSE [res EXCEPT !.Error = Err("command execution failed", ev.cause),
                         !.ExitCode = -1]

\* shouldRetry retrying execution errors only
shouldRetryErrorOnly(res) ==
    IF res.Error # ErrNil THEN TRUE
    ELSE FALSE

\* shouldRetry retrying every non-zero exit status
shouldRetryNonZero(res) ==
    IF res.Error # ErrNil THEN TRUE
    ELSE IF res.ExitCode # 0 THEN TRUE
    ELSE FALSE

\* exec.shouldRetry
shouldRetry(res) ==
    IF res.Error # ErrNil THEN TRUE
    ELSE IF res.ExitCode = 1 THEN TRUE
    ELSE FALSE

----------------------------------------------------------------------------
(* runner: ordering and the process exit code.                             *)

\* layerLess with <= for <
layerLessOrEqual(a, b) == a.Layer <= b.Layer

\* The comparison sortByLayer hands to sort.SliceStable.
layerLess(a, b) == a.Layer < b.Layer

Swap(s, i, j) == [s EXCEPT ![i] = s[j], ![j] = s[i]]

\* sort.SliceStable on up to 20 elements is an insertion sort: each element
\* moves left while it is less than its predecessor.
RECURSIVE insertLeft(_, _)
insertLeft(s, j) ==
    IF j > 1 /\ layerLess(s[j], s[j - 1])
    THEN insertLeft(Swap(s, j, j - 1), j - 1)
    ELSE s

RECURSIVE insertionSort(_, _)
insertionSort(s, i) ==
    IF i > Len(s) THEN s ELSE insertionSort(insertLeft(s, i), i + 1)

sortByLayer(cs) == insertionSort(cs, 2)

\* sortByLayer sorting the slice it was handed
checksAfterSortInPlace(cs) == sortByLayer(cs)

\* What sortByLayer leaves in the slice it was handed: sort.SliceStable works
\* on the copy.
checksAfterSort(cs) == cs

\* shouldFailFast switched off
shouldFailFastNever == FALSE

shouldFailFast == TRUE

\* ExitCode looking at FailCount for GatingFails
RunResultExitCodeErrorsOnly(r) ==
    IF r.ErrorCount > 0 THEN 2
    ELSE 0

RunResultExitCodeAnyFail(r) ==
    IF r.ErrorCount > 0 THEN 2
    ELSE IF r.FailCount > 0 THEN 1
    ELSE 0

RunResultExitCode(r) ==
    IF r.ErrorCount > 0 THEN 2
    ELSE IF r.GatingFails > 0 THEN 1
    ELSE 0

----------------------------------------------------------------------------
(* exec, runner: quoting of script arguments.  A token and a command text  *)
(* are sequences of one-character strings.                                 *)

\* the backquote, which a string of this module cannot hold, as a character
Backquote == "backquote"

\* the characters of shellQuote's strings.ContainsAny
ShellMeta ==
    {" ", "\t", "\n", "'", "\"", "\\", "$", Backquote, "!", "*", "?", "[", "]", "{", "}",
     "|", "<", ">", "&", ";", "(", ")"}

\* strings.ContainsAny(s, chars)
ContainsAny(s, chars) == \E i \in 1..Len(s) : s[i] \in chars

\* strings.ReplaceAll(s, old, new) for a one-character old
RECURSIVE ReplaceAll(_, _, _)
ReplaceAll(s, old, new) ==
    IF Len(s) = 0 THEN <<>>
    ELSE (IF Head(s) = old THEN new ELSE <<Head(s)>>) \o ReplaceAll(Tail(s), old, new)

\* shellQuote wrapping in double quotes
shellQuoteDouble(s) ==
    IF s = <<>> THEN <<"'", "'">>
    ELSE IF ~ContainsAny(s, ShellMeta) THEN s
    ELSE <<"\"">> \o ReplaceAll(s, "\"", <<"\\", "\"">>) \o <<"\"">>

\* shellQuote wrapping without a splice for the embedded single quotes
shellQuoteNoSplice(s) ==
    IF s = <<>> THEN <<"'", "'">>
    ELSE IF ~ContainsAny(s, ShellMeta) THEN s
    ELSE <<"'">> \o s \o <<"'">>

shellQuote(s) ==
    IF s = <<>> THEN <<"'", "'">>
    ELSE IF ~ContainsAny(s, ShellMeta) THEN s
    ELSE <<"'">> \o ReplaceAll(s, "'", <<"'", "\"", "'", "\"", "'">>) \o <<"'">>

\* strings.Join(words, " ")
RECURSIVE JoinWords(_)
JoinWords(words) ==
    IF Len(words) = 0 THEN <<>>
    ELSE IF Len(words) = 1 THEN words[1]
    ELSE words[1] \o <<" ">> \o JoinWords(Tail(words))

\* buildScriptCommand on the resolved path
buildScriptCommand(path, args) ==
    IF Len(args) = 0 THEN path
    ELSE path \o <<" ">> \o JoinWords([i \in 1..Len(args) |-> shellQuote(args[i])])

----------------------------------------------------------------------------
(* The environment: what a spawned shell can do, and the inputs.           *)

OutHealthy == <<"o", "k">>
OutBroken == <<"n", "o">>
Outputs == {OutHealthy, OutBroken}

ProcEvent(kind, code, out, cause) ==
    [kind |-> kind, code |-> code, out |-> out, cause |-> cause]

ProcEvents ==
    {ProcEvent("exited", 0, out, "") : out \in Outputs}
    \cup {ProcEvent("exited", c, OutBroken, "") : c \in 1..MaxExit}
    \cup {ProcEvent("signaled", 0, OutBroken, ""),
          ProcEvent("deadline", 0, OutBroken, ""),
          ProcEvent("failed", 0, <<>>, "exec: sh: not found")}

\* cmd.Start with a context that is already done
CtxDoneAtStart == ProcEvent("failed", 0, <<>>, "context canceled")

\* What cmd.Run reports when the governing context is cancelled while the
\* shell runs: the shell is killed, so Wait reports an ExitError of a signaled
\* process; or, when the kill reached a shell that had just exited 0, the
\* context's error.  (A shell that exits by itself before the kill is the run
\* in which the command ends first and the cancellation comes after.)
KilledEvents ==
    {ProcEvent("signaled", 0, OutBroken, ""),
     ProcEvent("failed", 0, OutHealthy, "context canceled")}

\* no process event: the placeholder in events that are not attempts
NoProc == ProcEvent("none", 0, <<>>, "")

\* How sh -c splits a command text into the words of a simple command, by
\* the quoting rules of the shell: [ok, words], ok being false when the text
\* is more than literal words (an expansion, an operator, a pattern, an open
\* quote).  mode is "u" outside quotes, "s" in single and "d" in double quotes;
\* cur is the word so far and open says that there is one.
RECURSIVE shParse(_, _, _, _, _)
shParse(text, mode, cur, open, words) ==
    LET bad == [ok |-> FALSE, words |-> <<>>]
        c == Head(text)
        rest == Tail(text)
    IN  IF Len(text) = 0
        THEN IF mode # "u" THEN bad
             ELSE [ok |-> TRUE, words |-> IF open THEN Append(words, cur) ELSE words]
        ELSE IF mode = "s"
        THEN IF c = "'" THEN shParse(rest, "u", cur, TRUE, words)
             ELSE shParse(rest, "s", Append(cur, c), TRUE, words)
        ELSE IF mode = "d"
        THEN IF c = "\"" THEN shParse(rest, "u", cur, TRUE, words)
             ELSE IF c \in {"$", Backquote} THEN bad
             ELSE IF c = "\\"
             THEN IF Len(rest) = 0 THEN bad
                  ELSE IF Head(rest) \in {"$", Backquote, "\"", "\\"}
                  THEN shParse(Tail(rest), "d", Append(cur, Head(rest)), TRUE, words)
                  ELSE shParse(rest, "d", Append(cur, c), TRUE, words)
             ELSE shParse(rest, "d", Append(cur, c), TRUE, words)
        ELSE IF c \in {" ", "\t"}
        THEN shParse(rest, "u", <<>>, FALSE, IF open THEN Append(words, cur) ELSE words)
        ELSE IF c = "'" THEN shParse(rest, "s", cur, TRUE, words)
        ELSE IF c = "\"" THEN shParse(rest, "d", cur, TRUE, words)
        ELSE IF c = "\\"
        THEN IF Len(rest) = 0 \/ Head(rest) = "\n" THEN bad
             ELSE shParse(Tail(rest), "u", Append(cur, Head(rest)), TRUE, words)
        ELSE IF c \in ShellMeta THEN bad
        ELSE shParse(rest, "u", Append(cur, c), TRUE, words)

shWords(text) == shParse(text, "u", <<>>, FALSE, <<>>)

\* The checks directory and the files around it.  Paths are strings the
\* model cannot look into, so filepath.IsAbs is the set of the absolute
\* paths in use; filepath.Join is the concatenation behind a separator.
ChecksDir == "/checks"
AbsolutePaths == {"/opt/probe.sh", "/opt/gone.sh"}
IsAbs(path) == path \in AbsolutePaths
Join(dir, path) == dir \o "/" \o path

\* the path RunScript and buildScriptCommand work with
ResolvePath(path) == IF ~IsAbs(path) THEN Join(ChecksDir, path) ELSE path

\* os.Stat on the resolved path: a file, a directory, or an error
FileStatus(path) ==
    CASE path \in {"/checks/dns.sh", "/opt/probe.sh"} -> "file"
      [] path = "/checks/lib" -> "dir"
      [] OTHER -> "missing"

\* What cmd.Run reports for the command of a check: a script that is not
\* there makes the shell exit with 127, a directory with 126; any other
\* command can do anything.
ShellEvents(check) ==
    IF check.Script = <<>> THEN ProcEvents
    ELSE LET status == FileStatus(ResolvePath(check.Script[1].Path))
         IN  CASE status = "missing" -> {ProcEvent("exited", 127, OutBroken, "")}
               [] status = "dir" -> {ProcEvent("exited", 126, OutBroken, "")}
               [] OTHER -> ProcEvents

\* ctx.Err() of the governing context once it is cancelled
ErrCanceled == Err("context canceled", "")

\* The zero CommandResult
ZeroResult == [Output |-> <<>>, ExitCode |-> 0, Error |-> ErrNil]

\* History of an executor call: an attempt (what cmd.Run reported, whether the
\* governing context was done by then, what RunCommand returned), or a delay
\* that elapsed.
AttemptEvent(p, res) ==
    [ev |-> "attempt", proc |-> p, ctxDone |-> cancelled, res |-> res, d |-> 0]
DelayEvent(d) ==
    [ev |-> "delay", proc |-> NoProc, ctxDone |-> FALSE, res |-> ZeroResult, d |-> d]

\* NewRunner's defaults
RunnerDefaultTimeout == 30
RunnerRetryDelay == 2

HealthyValidation == [Contains |-> OutHealthy, NotContains |-> <<"n">>, Regex |-> <<>>]

CheckName(i) == "c" \o ToString(i)

CheckShapes ==
    [Command : {<<"probe ", "{{.Cluster}}">>},
     Script : {<<>>},
     Validate : {<<>>, <<HealthyValidation>>},
     Expect : {"unset", "nongating"},
     Retry : BOOLEAN,
     Timeout : {0}]
    \cup
    {[Command |-> <<"probe ", "{{.Missing}}">>, Script |-> <<>>, Validate |-> <<>>,
      Expect |-> "unset", Retry |-> FALSE, Timeout |-> 0],
     [Command |-> <<>>,
      Script |-> <<[Path |-> "dns.sh", Args |-> << <<"{{.Namespace}}">> >>]>>,
      Validate |-> <<>>, Expect |-> "gating", Retry |-> TRUE, Timeout |-> 5],
     [Command |-> <<>>,
      Script |-> <<[Path |-> "dns.sh", Args |-> << <<"{{.Missing}}">> >>]>>,
      Validate |-> <<>>, Expect |-> "nongating", Retry |-> TRUE, Timeout |-> 0]}

MkCheck(i, layer, shape) ==
    [Name |-> CheckName(i), Layer |-> layer,
     Command |-> shape.Command, Script |-> shape.Script,
     Validate |-> shape.Validate, Expect |-> shape.Expect,
     Retry |-> shape.Retry, Timeout |-> shape.Timeout]

\* inline commands that differ in the gating flag only
PlainShapes ==
    {s \in CheckShapes : /\ s.Command = <<"probe ", "{{.Cluster}}">>
                         /\ s.Validate = <<>>
                         /\ ~s.Retry}

\* the check lists of length n, and of length up to maxLen
ConfigsOfLen(shapes, n) ==
    {[i \in 1..n |-> MkCheck(i, f[i][1], f[i][2])] :
        f \in [1..n -> (0..MaxLayer) \X shapes]}

RECURSIVE ConfigsOver(_, _)
ConfigsOver(shapes, maxLen) ==
    IF maxLen = 0 THEN ConfigsOfLen(shapes, 0)
    ELSE ConfigsOfLen(shapes, maxLen) \cup ConfigsOver(shapes, maxLen - 1)

Configs == ConfigsOver(CheckShapes, MaxChecks) \cup ConfigsOver(PlainShapes, MaxPlainChecks)

\* What LoadConfig can hand to Config.Validate: checks with or without a
\* name, a command, a script (with or without a path), a regex that does not
\* compile.
BadRegexValidation == [Contains |-> <<>>, NotContains |-> <<>>, Regex |-> <<"(">>]

LoadedShapes ==
    [Named : BOOLEAN,
     Command : {<<>>, <<"probe ">>},
     Script : {<<>>, <<[Path |-> "", Args |-> <<>>]>>, <<[Path |-> "dns.sh", Args |-> <<>>]>>},
     Validate : {<<>>, <<BadRegexValidation>>}]

LoadedCheck(i, shape) ==
    [Name |-> IF shape.Named THEN CheckName(i) ELSE "", Layer |-> 0,
     Command |-> shape.Command, Script |-> shape.Script,
     Validate |-> shape.Validate, Expect |-> "unset",
     Retry |-> FALSE, Timeout |-> 0]

\* One-check configurations with a script: relative or absolute path; a
\* file, a directory, or nothing behind it.
ScriptPaths == {"dns.sh", "gone.sh", "lib", "/opt/probe.sh", "/opt/gone.sh"}

ScriptShapes ==
    [Command : {<<>>},
     Script : {<<[Path |-> path, Args |-> args]>> :
                  path \in ScriptPaths, args \in {<<>>, << <<"{{.Namespace}}">> >>}},
     Validate : {<<>>},
     Expect : {"unset"},
     Retry : {FALSE},
     Timeout : {0, 5}]

ScriptConfigs == {<<MkCheck(1, 0, shape)>> : shape \in ScriptShapes}

LoadedConfigsOfLen(n) ==
    {[i \in 1..n |-> LoadedCheck(i, f[i])] : f \in [1..n -> LoadedShapes]}

RECURSIVE LoadedConfigsUpTo(_)
LoadedConfigsUpTo(n) ==
    IF n = 0 THEN LoadedConfigsOfLen(0)
    ELSE LoadedConfigsOfLen(n) \cup LoadedConfigsUpTo(n - 1)

LoadedConfigs == LoadedConfigsUpTo(MaxLoadedChecks)

----------------------------------------------------------------------------
(* runner: Run and executeCheck.                                           *)

EmptyRunResult(total) ==
    [Results |-> <<>>, PassCount |-> 0, FailCount |-> 0, WarnCount |-> 0,
     SkipCount |-> 0, ErrorCount |-> 0, TotalCount |-> total, GatingFails |-> 0]

\* Recorded with TotalCount following the number of recorded results
RecordedCountingTotal(r, check, cr) ==
    [r EXCEPT
        !.Results = Append(@, [Check |-> check, Result |-> cr]),
        !.TotalCount = Len(r.Results) + 1,
        !.PassCount = IF cr.Outcome = OutcomePass THEN @ + 1 ELSE @,
        !.FailCount = IF cr.Outcome = OutcomeFail THEN @ + 1 ELSE @,
        !.GatingFails = IF cr.Outcome = OutcomeFail /\ cr.Gating THEN @ + 1 ELSE @,
        !.WarnCount = IF cr.Outcome = OutcomeWarn THEN @ + 1 ELSE @,
        !.SkipCount = IF cr.Outcome = OutcomeSkip THEN @ + 1 ELSE @,
        !.ErrorCount = IF cr.Outcome = OutcomeError THEN @ + 1 ELSE @]

\* Recorded with one loop variable behind every Check reference: the entries
\* recorded before all refer to the check of this iteration
RecordedSharedLoopVariable(r, check, cr) ==
    [r EXCEPT
        !.Results = Append([i \in 1..Len(@) |-> [Check |-> check, Result |-> @[i].Result]],
                           [Check |-> check, Result |-> cr]),
        !.PassCount = IF cr.Outcome = OutcomePass THEN @ + 1 ELSE @,
        !.FailCount = IF cr.Outcome = OutcomeFail THEN @ + 1 ELSE @,
        !.GatingFails = IF cr.Outcome = OutcomeFail /\ cr.Gating THEN @ + 1 ELSE @,
        !.WarnCount = IF cr.Outcome = OutcomeWarn THEN @ + 1 ELSE @,
        !.SkipCount = IF cr.Outcome = OutcomeSkip THEN @ + 1 ELSE @,
        !.ErrorCount = IF cr.Outcome = OutcomeError THEN @ + 1 ELSE @]

\* Recorded counting an ERROR as a failure as well
RecordedErrorAsFailToo(r, check, cr) ==
    [r EXCEPT
        !.Results = Append(@, [Check |-> check, Result |-> cr]),
        !.PassCount = IF cr.Outcome = OutcomePass THEN @ + 1 ELSE @,
        !.FailCount = IF cr.Outcome \in {OutcomeFail, OutcomeError} THEN @ + 1 ELSE @,
        !.GatingFails = IF cr.Outcome = OutcomeFail /\ cr.Gating THEN @ + 1 ELSE @,
        !.WarnCount = IF cr.Outcome = OutcomeWarn THEN @ + 1 ELSE @,
        !.SkipCount = IF cr.Outcome = OutcomeSkip THEN @ + 1 ELSE @,
        !.ErrorCount = IF cr.Outcome = OutcomeError THEN @ + 1 ELSE @]

\* Recorded keeping the latest result only
RecordedLatestOnly(r, check, cr) ==
    [r EXCEPT
        !.Results = <<[Check |-> check, Result |-> cr]>>,
        !.PassCount = IF cr.Outcome = OutcomePass THEN @ + 1 ELSE @,
        !.FailCount = IF cr.Outcome = OutcomeFail THEN @ + 1 ELSE @,
        !.GatingFails = IF cr.Outcome = OutcomeFail /\ cr.Gating THEN @ + 1 ELSE @,
        !.WarnCount = IF cr.Outcome = OutcomeWarn THEN @ + 1 ELSE @,
        !.SkipCount = IF cr.Outcome = OutcomeSkip THEN @ + 1 ELSE @,
        !.ErrorCount = IF cr.Outcome = OutcomeError THEN @ + 1 ELSE @]

\* Recorded with every FAIL counted as a gating failure
RecordedEveryFailGating(r, check, cr) ==
    [r EXCEPT
        !.Results = Append(@, [Check |-> check, Result |-> cr]),
        !.PassCount = IF cr.Outcome = OutcomePass THEN @ + 1 ELSE @,
        !.FailCount = IF cr.Outcome = OutcomeFail THEN @ + 1 ELSE @,
        !.GatingFails = IF cr.Outcome = OutcomeFail THEN @ + 1 ELSE @,
        !.WarnCount = IF cr.Outcome = OutcomeWarn THEN @ + 1 ELSE @,
        !.SkipCount = IF cr.Outcome = OutcomeSkip THEN @ + 1 ELSE @,
        !.ErrorCount = IF cr.Outcome = OutcomeError THEN @ + 1 ELSE @]

\* Run: record the result and update the counts
Recorded(r, check, cr) ==
    [r EXCEPT
        !.Results = Append(@, [Check |-> check, Result |-> cr]),
        !.PassCount = IF cr.Outcome = OutcomePass THEN @ + 1 ELSE @,
        !.FailCount = IF cr.Outcome = OutcomeFail THEN @ + 1 ELSE @,
        !.GatingFails = IF cr.Outcome = OutcomeFail /\ cr.Gating THEN @ + 1 ELSE @,
        !.WarnCount = IF cr.Outcome = OutcomeWarn THEN @ + 1 ELSE @,
        !.SkipCount = IF cr.Outcome = OutcomeSkip THEN @ + 1 ELSE @,
        !.ErrorCount = IF cr.Outcome = OutcomeError THEN @ + 1 ELSE @]

\* FinishIteration leaving the loop on an ERROR only
FinishIterationStopOnError(cr) ==
    /\ result' = Recorded(result, checks[idx], cr)
    /\ IF cr.Outcome = OutcomeError
       THEN /\ pc' = "done"
            /\ idx' = idx
       ELSE /\ idx' = idx + 1
            /\ pc' = IF idx + 1 > Len(checks) THEN "done" ELSE "loop"

\* FinishIteration leaving the loop on any FAIL
FinishIterationStopOnFail(cr) ==
    /\ result' = Recorded(result, checks[idx], cr)
    /\ IF cr.Outcome \in {OutcomeFail, OutcomeError}
       THEN /\ pc' = "done"
            /\ idx' = idx
       ELSE /\ idx' = idx + 1
            /\ pc' = IF idx + 1 > Len(checks) THEN "done" ELSE "loop"

\* Run, from the return of executeCheck to the next iteration or the return
FinishIteration(cr) ==
    /\ result' = Recorded(result, checks[idx], cr)
    /\ IF IsGatingFailure(cr) /\ shouldFailFast
       THEN /\ pc' = "done"
            /\ idx' = idx
       ELSE /\ idx' = idx + 1
            /\ pc' = IF idx + 1 > Len(checks) THEN "done" ELSE "loop"

\* classifyCommand running the Validator on a plain failure too
classifyCommandValidatingFailures(check, res, att) ==
    LET validationErrors ==
            IF res.ExitCode \in {0, 1} /\ res.Error = ErrNil /\ check.Validate # <<>>
            THEN Output(res.Output, check.Validate)
            ELSE <<>>
    IN  [ClassifyResult(res.ExitCode, res.Error, validationErrors, IsGating(check))
            EXCEPT !.Output = res.Output, !.RetryCount = att - 1]

\* classifyCommand reporting the attempts as the retries
classifyCommandCountingAttempts(check, res, att) ==
    LET validationErrors ==
            IF res.ExitCode = 0 /\ res.Error = ErrNil /\ check.Validate # <<>>
            THEN Output(res.Output, check.Validate)
            ELSE <<>>
    IN  [ClassifyResult(res.ExitCode, res.Error, validationErrors, IsGating(check))
            EXCEPT !.Output = res.Output, !.RetryCount = att]

\* classifyCommand running the Validator on every result without an error
classifyCommandValidatingAnyExit(check, res, att) ==
    LET validationErrors ==
            IF res.Error = ErrNil /\ check.Validate # <<>>
            THEN Output(res.Output, check.Validate)
            ELSE <<>>
    IN  [ClassifyResult(res.ExitCode, res.Error, validationErrors, IsGating(check))
            EXCEPT !.Output = res.Output, !.RetryCount = att - 1]

\* executeCheck, from the return of the executor on
classifyCommand(check, res, att) ==
    LET validationErrors ==
            IF res.ExitCode = 0 /\ res.Error = ErrNil /\ check.Validate # <<>>
            THEN Output(res.Output, check.Validate)
            ELSE <<>>
    IN  [ClassifyResult(res.ExitCode, res.Error, validationErrors, IsGating(check))
            EXCEPT !.Output = res.Output, !.RetryCount = att - 1]

----------------------------------------------------------------------------
(* exec: RunWithRetry, as steps between its suspension points.  inRun says *)
(* whether executeCheck made the call.                                     *)

ExecReturn(res, att, inRun) ==
    /\ cmdResult' = res
    /\ attempts' = att
    /\ IF inRun
       THEN /\ epc' = "idle"
            /\ ret' = <<>>
            /\ FinishIteration(classifyCommand(checks[idx], res, att))
       ELSE /\ epc' = "returned"
            /\ ret' = <<[res |-> res, attempts |-> att]>>
            /\ UNCHANGED <<pc, idx, result>>

ExecSuspend(at, res, att, inRun) ==
    /\ epc' = at
    /\ cmdResult' = res
    /\ attempts' = att
    /\ ret' = <<>>
    /\ pc' = IF inRun THEN "exec" ELSE pc
    /\ UNCHANGED <<idx, result>>

\* AfterAttempt returning the result of the attempt before the settling one
AfterAttemptKeepingEarlier(res, att, retry, maxR, inRun) ==
    IF ~retry
    THEN ExecReturn(res, 1, inRun)
    ELSE IF ~shouldRetry(res)
    THEN ExecReturn(IF att > 1 THEN cmdResult ELSE res, att, inRun)
    ELSE IF att <= maxR
    THEN IF cancelled
         THEN ExecReturn([res EXCEPT !.Error = ErrCanceled], att, inRun)
         ELSE ExecSuspend("wait", res, att, inRun)
    ELSE ExecReturn(res, att, inRun)

\* AfterAttempt giving up one attempt early
AfterAttemptOneShort(res, att, retry, maxR, inRun) ==
    IF ~retry
    THEN ExecReturn(res, 1, inRun)
    ELSE IF ~shouldRetry(res)
    THEN ExecReturn(res, att, inRun)
    ELSE IF att < maxR
    THEN IF cancelled
         THEN ExecReturn([res EXCEPT !.Error = ErrCanceled], att, inRun)
         ELSE ExecSuspend("wait", res, att, inRun)
    ELSE ExecReturn(res, att, inRun)

\* RunCommand has returned res as attempt number att
AfterAttempt(res, att, retry, maxR, inRun) ==
    IF ~retry
    THEN ExecReturn(res, 1, inRun)
    ELSE IF ~shouldRetry(res)
    THEN ExecReturn(res, att, inRun)
    ELSE IF att <= maxR
    THEN IF cancelled
         THEN ExecReturn([res EXCEPT !.Error = ErrCanceled], att, inRun)
         ELSE ExecSuspend("wait", res, att, inRun)
    ELSE ExecReturn(res, att, inRun)

\* RunCommand is called as attempt number att
StartAttempt(att, retry, maxR, tmo, inRun, tr) ==
    IF cancelled
    THEN LET res == RunCommand(CtxDoneAtStart, tmo)
         IN  /\ trace' = Append(tr, AttemptEvent(CtxDoneAtStart, res))
             /\ AfterAttempt(res, att, retry, maxR, inRun)
    ELSE /\ trace' = tr
         /\ ExecSuspend("running", cmdResult, att, inRun)

CallArgs(retry, tmo, maxR, delay) ==
    [retry |-> retry, timeout |-> tmo, maxRetries |-> maxR, retryDelay |-> delay]

\* RunWithRetry taking maxRetries as it comes
clampRetriesNone(n) == n

clampRetries(n) == IF n < 0 THEN 0 ELSE n
defaultDelay(d) == IF d <= 0 THEN DefaultRetryDelay ELSE d

----------------------------------------------------------------------------
(* Actions.                                                                *)

RunStart ==
    /\ pc = "start"
    /\ result' = EmptyRunResult(Len(Config))
    /\ checks' = sortByLayer(Config)
    /\ idx' = 1
    /\ pc' = IF Len(Config) = 0 THEN "done" ELSE "loop"
    /\ Config' = checksAfterSort(Config)
    /\ UNCHANGED <<rMaxRetries, started, execVars, cancelled, classVars>>

BeginCheck ==
    /\ pc = "loop"
    /\ LET check == checks[idx]
           t == ApplyTemplateToCheck(check, Vars)
       IN  /\ started' = Append(started, check.Name)
           /\ IF ~t.ok
              THEN /\ FinishIteration(ClassifyResult(-1, t.err, <<>>, IsGating(check)))
                   /\ UNCHANGED execVars
              ELSE IF t.check.Script # <<>> \/ t.check.Command # <<>>
              THEN /\ call' = CallArgs(check.Retry, GetTimeout(check, RunnerDefaultTimeout),
                                        rMaxRetries, RunnerRetryDelay)
                   /\ maxRetries' = IF check.Retry THEN clampRetries(rMaxRetries) ELSE 0
                   /\ retryDelay' = IF check.Retry THEN defaultDelay(RunnerRetryDelay) ELSE 0
                   /\ StartAttempt(1, check.Retry, clampRetries(rMaxRetries),
                                   GetTimeout(check, RunnerDefaultTimeout), TRUE, <<>>)
              ELSE /\ FinishIteration(ClassifyResult(-1, Err("check has no command or script", ""),
                                                     <<>>, IsGating(check)))
                   /\ UNCHANGED execVars
           /\ Config' = [k \in 1..Len(Config) |->
                            IF Config[k].Name = check.Name
                            THEN [Config[k] EXCEPT
                                     !.Script = scriptAfterTemplate(check.Script, Vars)]
                            ELSE Config[k]]
    /\ UNCHANGED <<rMaxRetries, checks, cancelled, classVars>>

\* A stand-alone call of RunWithRetry or RunCommand
Call ==
    /\ epc = "call"
    /\ maxRetries' = IF call.retry THEN clampRetries(call.maxRetries) ELSE 0
    /\ retryDelay' = IF call.retry THEN defaultDelay(call.retryDelay) ELSE 0
    /\ IF call.retry /\ ~(0 <= clampRetries(call.maxRetries))
       THEN /\ trace' = <<>>
            /\ ExecReturn(cmdResult, 0, FALSE)
       ELSE StartAttempt(1, call.retry, clampRetries(call.maxRetries), call.timeout,
                         FALSE, <<>>)
    /\ UNCHANGED <<Config, rMaxRetries, checks, started, call, cancelled, classVars>>

\* A stand-alone call of RunScript on the script of the one check of Config
ScriptCall ==
    /\ epc = "script"
    /\ LET script == Config[1].Script[1]
           scriptPath == ResolvePath(script.Path)
           status == FileStatus(scriptPath)
       IN  /\ maxRetries' = 0
           /\ retryDelay' = 0
           /\ IF status = "missing"
              THEN /\ trace' = <<>>
                   /\ ExecReturn([Output |-> <<>>, ExitCode |-> -1,
                                   Error |-> Err("script not found", scriptPath)], 0, FALSE)
              ELSE IF status = "dir"
              THEN /\ trace' = <<>>
                   /\ ExecReturn([Output |-> <<>>, ExitCode |-> -1,
                                   Error |-> Err("script path is a directory", scriptPath)],
                                  0, FALSE)
              ELSE StartAttempt(1, FALSE, 0, call.timeout, FALSE, <<>>)
    /\ UNCHANGED <<Config, rMaxRetries, checks, started, call, cancelled, classVars>>

\* The command of the attempt in flight ends
CommandDone ==
    /\ epc = "running"
    /\ \E ev \in (IF cancelled THEN KilledEvents
                  ELSE IF pc = "exec" THEN ShellEvents(checks[idx])
                  ELSE ProcEvents) :
          LET res == RunCommand(ev, call.timeout)
          IN  /\ trace' = Append(trace, AttemptEvent(ev, res))
              /\ AfterAttempt(res, attempts, call.retry, maxRetries, pc = "exec")
    /\ UNCHANGED <<Config, rMaxRetries, checks, started, call,
                   maxRetries, retryDelay, cancelled, classVars>>

\* The retry delay elapses: the loop goes round
WaitElapsed ==
    /\ epc = "wait"
    /\ ~cancelled
    /\ StartAttempt(attempts + 1, TRUE, maxRetries, call.timeout, pc = "exec",
                    Append(trace, DelayEvent(retryDelay)))
    /\ UNCHANGED <<Config, rMaxRetries, checks, started, call,
                   maxRetries, retryDelay, cancelled, classVars>>

\* WaitCancelled returning the last result as it is
WaitCancelledKeepingResult ==
    /\ epc = "wait"
    /\ cancelled
    /\ trace' = trace
    /\ ExecReturn(cmdResult, attempts, pc = "exec")
    /\ UNCHANGED <<Config, rMaxRetries, checks, started, call,
                   maxRetries, retryDelay, cancelled, classVars>>

\* The governing context is done while RunWithRetry waits
WaitCancelled ==
    /\ epc = "wait"
    /\ cancelled
    /\ trace' = trace
    /\ ExecReturn([cmdResult EXCEPT !.Error = ErrCanceled], attempts, pc = "exec")
    /\ UNCHANGED <<Config, rMaxRetries, checks, started, call,
                   maxRetries, retryDelay, cancelled, classVars>>

\* main's signal handler cancels the governing context
Cancel ==
    /\ ~cancelled
    /\ pc \in {"start", "loop", "exec"} \/ epc \in {"call", "running", "wait"}
    /\ cancelled' = TRUE
    /\ UNCHANGED <<runVars, execVars, classVars>>

\* main: validate the loaded configuration; exit with 2 or go on to Run
MainValidate ==
    /\ pc = "validate"
    /\ pc' = IF Validate(Config) # ErrNil THEN "exit2" ELSE "start"
    /\ UNCHANGED <<Config, rMaxRetries, checks, idx, result, started,
                   execVars, cancelled, classVars>>

\* The classifier applied to its arguments
Classify ==
    /\ cout = <<>>
    /\ cout' = <<ClassifyResult(cin.exitCode, cin.execErr, cin.validationErrors, cin.gating)>>
    /\ UNCHANGED <<runVars, execVars, cancelled, cin>>

\* buildScriptCommand applied to a script path and arguments
QuoteArgs ==
    /\ cout = <<>>
    /\ cout' = <<[quoted |-> [i \in 1..Len(cin.args) |-> shellQuote(cin.args[i])],
                  command |-> buildScriptCommand(cin.path, cin.args)]>>
    /\ UNCHANGED <<runVars, execVars, cancelled, cin>>

\* validate.Output applied to its arguments
ValidateOutput ==
    /\ cout = <<>>
    /\ cout' = <<Output(cin.output, cin.v)>>
    /\ UNCHANGED <<runVars, execVars, cancelled, cin>>

----------------------------------------------------------------------------
(* Specifications.                                                         *)

IdleRun ==
    /\ Config = <<>>
    /\ rMaxRetries = 0
    /\ pc = "off"
    /\ checks = <<>>
    /\ idx = 0
    /\ result = EmptyRunResult(0)
    /\ started = <<>>

IdleExec ==
    /\ epc = "idle"
    /\ call = CallArgs(FALSE, 0, 0, 0)
    /\ maxRetries = 0
    /\ retryDelay = 0
    /\ attempts = 0
    /\ cmdResult = ZeroResult
    /\ ret = <<>>
    /\ trace = <<>>

IdleClassify ==
    /\ cin = [exitCode |-> 0, execErr |-> ErrNil, validationErrors |-> <<>>, gating |-> TRUE]
    /\ cout = <<>>

\* Runner.Run on a configuration
Init ==
    /\ Config \in Configs
    /\ rMaxRetries \in 0..MaxRunnerRetries
    /\ pc = "start"
    /\ checks = <<>>
    /\ idx = 0
    /\ result = EmptyRunResult(0)
    /\ started = <<>>
    /\ IdleExec
    /\ cancelled = FALSE
    /\ IdleClassify

Next ==
    \/ RunStart
    \/ BeginCheck
    \/ CommandDone
    \/ WaitElapsed
    \/ WaitCancelled
    \/ Cancel

Spec == Init /\ [][Next]_vars

\* A stand-alone call of the executor
TimeoutArgs == {0, 5}
DelayArgs == {0, 1}

InitExec ==
    /\ IdleRun
    /\ epc = "call"
    /\ call \in {CallArgs(TRUE, t, n, d) :
                     t \in TimeoutArgs, n \in -1..MaxRetriesArg, d \in DelayArgs}
                \cup {CallArgs(FALSE, t, 0, 0) : t \in TimeoutArgs}
    /\ maxRetries = 0
    /\ retryDelay = 0
    /\ attempts = 0
    /\ cmdResult = ZeroResult
    /\ ret = <<>>
    /\ trace = <<>>
    /\ cancelled = FALSE
    /\ IdleClassify

NextExec ==
    \/ Call
    \/ CommandDone
    \/ WaitElapsed
    \/ WaitCancelled
    \/ Cancel

SpecExec == InitExec /\ [][NextExec]_vars

\* A stand-alone call in which every command started comes to an end and
\* every timer fires
SpecExecFair ==
    /\ SpecExec
    /\ WF_vars(Call)
    /\ WF_vars(CommandDone)
    /\ WF_vars(WaitElapsed)
    /\ WF_vars(WaitCancelled)

\* The classifier on arbitrary arguments
ExitCodes == (-1..MaxExit) \cup {127, 255}
ExecErrors == {ErrNil, Err("command timed out after", "30"),
               Err("command execution failed", "exec: sh: not found"), ErrCanceled}
ViolationLists == {<<>>, <<"output missing required text: ok">>,
                   <<"output missing required text: ok", "output contains forbidden text: n">>}

InitClassify ==
    /\ IdleRun
    /\ IdleExec
    /\ cancelled = FALSE
    /\ cin \in [exitCode : ExitCodes, execErr : ExecErrors,
                validationErrors : ViolationLists, gating : BOOLEAN]
    /\ cout = <<>>

NextClassify == Classify

SpecClassify == InitClassify /\ [][NextClassify]_vars

\* validate.Output on an output and a validation spec
OutputTexts == Outputs \cup {<<>>}

Validations ==
    [Contains : {<<>>, <<"o">>, OutBroken},
     NotContains : {<<>>, <<"k">>, <<"n">>},
     Regex : {<<>>, OutHealthy, <<"(", "o", ")">>, <<"n">>, <<"(">>, <<"k", ")">>}]

InitValidate ==
    /\ IdleRun
    /\ IdleExec
    /\ cancelled = FALSE
    /\ cin \in [output : OutputTexts, v : {<<>>} \cup {<<v>> : v \in Validations}]
    /\ cout = <<>>

NextValidate == ValidateOutput

SpecValidate == InitValidate /\ [][NextValidate]_vars

\* buildScriptCommand on a path and up to two arguments over an alphabet of
\* quotes, a blank, a dollar, a backslash and a letter
TokenChars == {"'", " ", "$", "\"", "\\", "a"}
Tokens == UNION {[1..n -> TokenChars] : n \in 0..MaxTokenLen}
SecondTokens == {<<>>, <<"a", " ", "$">>}
ArgLists ==
    {<<>>} \cup {<<s>> : s \in Tokens} \cup {<<s, t>> : s \in Tokens, t \in SecondTokens}
ScriptFile == <<"/", "d">>

InitQuote ==
    /\ IdleRun
    /\ IdleExec
    /\ cancelled = FALSE
    /\ cin \in [path : {ScriptFile}, args : ArgLists]
    /\ cout = <<>>

NextQuote == QuoteArgs

SpecQuote == InitQuote /\ [][NextQuote]_vars

\* main on a loaded configuration: Config.Validate, then Runner.Run
InitMain ==
    /\ Config \in LoadedConfigs
    /\ rMaxRetries = 0
    /\ pc = "validate"
    /\ checks = <<>>
    /\ idx = 0
    /\ result = EmptyRunResult(0)
    /\ started = <<>>
    /\ IdleExec
    /\ cancelled = FALSE
    /\ IdleClassify

NextMain ==
    \/ MainValidate
    \/ RunStart
    \/ BeginCheck
    \/ CommandDone
    \/ Cancel

SpecMain == InitMain /\ [][NextMain]_vars

\* Script invocations: Run on a one-check configuration with a script, or a
\* stand-alone call of RunScript on that script
InitScript ==
    /\ Config \in ScriptConfigs
    /\ rMaxRetries = 0
    /\ \/ pc = "start" /\ epc = "idle" /\ call = CallArgs(FALSE, 0, 0, 0)
       \/ pc = "off" /\ epc = "script"
                     /\ call = CallArgs(FALSE, Config[1].Timeout, 0, 0)
    /\ checks = <<>>
    /\ idx = 0
    /\ result = EmptyRunResult(0)
    /\ started = <<>>
    /\ maxRetries = 0
    /\ retryDelay = 0
    /\ attempts = 0
    /\ cmdResult = ZeroResult
    /\ ret = <<>>
    /\ trace = <<>>
    /\ cancelled = FALSE
    /\ IdleClassify

NextScript ==
    \/ RunStart
    \/ BeginCheck
    \/ ScriptCall
    \/ CommandDone

SpecScript == InitScript /\ [][NextScript]_vars

----------------------------------------------------------------------------
(* The classifier, under SpecClassify.                                     *)

classified == cout # <<>>
classifiedResult == cout[1]

\* C1: with no execution error and no validation violations the outcome is
\* decided by the exit status alone: 0, 1, 2, 3, 4 give PASS, FAIL, ERROR,
\* SKIP, WARN, and every other exit status gives ERROR.
C1_ExitStatusDecides ==
    (classified /\ cin.execErr = ErrNil /\ cin.validationErrors = <<>>) =>
        /\ cin.exitCode = 0 => classifiedResult.Outcome = "PASS"
        /\ cin.exitCode = 1 => classifiedResult.Outcome = "FAIL"
        /\ cin.exitCode = 2 => classifiedResult.Outcome = "ERROR"
        /\ cin.exitCode = 3 => classifiedResult.Outcome = "SKIP"
        /\ cin.exitCode = 4 => classifiedResult.Outcome = "WARN"
        /\ cin.exitCode \notin 0..4 => classifiedResult.Outcome = "ERROR"

C1_Witness ==
    /\ classified
    /\ cin.execErr = ErrNil
    /\ cin.validationErrors = <<>>
    /\ cin.exitCode = 127
    /\ classifiedResult.Outcome = "ERROR"

\* C2: a non-nil execution error gives ERROR whatever the exit status and the
\* validation violations are, and the CheckResult keeps the execution error.
C2_ExecutionErrorIsError ==
    (classified /\ cin.execErr # ErrNil) =>
        /\ classifiedResult.Outcome = "ERROR"
        /\ classifiedResult.ExecutionError = cin.execErr

C2_Witness ==
    /\ classified
    /\ cin.execErr # ErrNil
    /\ cin.exitCode = 0
    /\ cin.validationErrors # <<>>
    /\ classifiedResult.Outcome = "ERROR"

\* C3: with no execution error, exit status 0 with one or more validation
\* violations is FAIL, and the CheckResult keeps the violations.
C3_ValidationFailureIsFail ==
    (classified /\ cin.execErr = ErrNil /\ cin.exitCode = 0
                /\ Len(cin.validationErrors) >= 1) =>
        /\ classifiedResult.Outcome = "FAIL"
        /\ classifiedResult.ValidationErrors = cin.validationErrors

C3_Witness ==
    /\ classified
    /\ cin.execErr = ErrNil
    /\ cin.exitCode = 0
    /\ Len(cin.validationErrors) = 2
    /\ classifiedResult.Outcome = "FAIL"

\* C4: ERROR blocks under either gating value, FAIL blocks exactly when gating,
\* and PASS, WARN and SKIP never block; IsGatingFailure is that decision on
\* the CheckResult's outcome and gating flag.
C4_BlockingDecision ==
    /\ \A g \in BOOLEAN :
          /\ IsBlocking("ERROR", g)
          /\ IsBlocking("FAIL", g) <=> g
          /\ ~IsBlocking("PASS", g)
          /\ ~IsBlocking("WARN", g)
          /\ ~IsBlocking("SKIP", g)
    /\ classified =>
          (IsGatingFailure(classifiedResult) <=>
              (classifiedResult.Outcome = "ERROR" \/ (classifiedResult.Outcome = "FAIL" /\ cin.gating)))

C4_Witness ==
    /\ classified
    /\ classifiedResult.Outcome = "ERROR"
    /\ ~cin.gating
    /\ IsGatingFailure(classifiedResult)

\* C5: ShouldRetry is true exactly when an execution error is set or the raw
\* exit status is 1; so it is false for exit status 0 with violations.
C5_RetryRecommendation ==
    classified => (ShouldRetry(classifiedResult) <=> (cin.execErr # ErrNil \/ cin.exitCode = 1))

C5_Witness ==
    /\ classified
    /\ cin.execErr = ErrNil
    /\ cin.exitCode = 0
    /\ cin.validationErrors # <<>>
    /\ classifiedResult.Outcome = "FAIL"
    /\ ~ShouldRetry(classifiedResult)

----------------------------------------------------------------------------
(* Runner.Run, under Spec.                                                 *)

Results == result.Results
NumResults == Len(result.Results)

\* position of the check called name in the declared list
DeclIndex(name) == CHOOSE k \in 1..Len(Config) : Config[k].Name = name
Declared(name) == Config[DeclIndex(name)]

StartedNames == {started[k] : k \in 1..Len(started)}

\* C6: once a recorded CheckResult is blocking, Run has stopped: that result
\* is the last one recorded, no further check was handed to executeCheck, none
\* is in flight, and no check of a higher layer has run.
C6_FailFast ==
    \A i \in 1..NumResults :
        IsGatingFailure(Results[i].Result) =>
            /\ i = NumResults
            /\ Len(started) = i
            /\ pc = "done"
            /\ epc = "idle"
            /\ \A k \in 1..Len(Config) :
                  Config[k].Layer > Results[i].Check.Layer =>
                      Config[k].Name \notin StartedNames

C6_Witness ==
    /\ NumResults = 1
    /\ Len(Config) = 3
    /\ Results[1].Result.Outcome = "FAIL"
    /\ Results[1].Result.Gating
    /\ \E k \in 1..Len(Config) : Config[k].Layer > Results[1].Check.Layer
    /\ pc = "done"

\* C7: ExitCode is 2 if some recorded result is an ERROR, else 1 if some
\* recorded result is a FAIL with gating set, else 0; on the counters alone an
\* error count outweighs a gating-fail count.
C7_ExitCode ==
    /\ pc = "done" =>
          RunResultExitCode(result) =
              IF \E i \in 1..NumResults : Results[i].Result.Outcome = "ERROR" THEN 2
              ELSE IF \E i \in 1..NumResults :
                         /\ Results[i].Result.Outcome = "FAIL"
                         /\ Results[i].Result.Gating
                   THEN 1
              ELSE 0
    /\ \A e \in 0..1, g \in 0..1 :
          RunResultExitCode([result EXCEPT !.ErrorCount = e, !.GatingFails = g]) =
              IF e > 0 THEN 2 ELSE IF g > 0 THEN 1 ELSE 0

C7_Witness ==
    /\ pc = "done"
    /\ NumResults = 2
    /\ Results[1].Result.Outcome = "FAIL"
    /\ ~Results[1].Result.Gating
    /\ Results[2].Result.Outcome = "WARN"
    /\ RunResultExitCode(result) = 0

\* C8: the checks handed to executeCheck come in non-decreasing layer order,
\* and those of one layer in the order of their declaration.
C8_LayerOrder ==
    \A i \in 1..Len(started) : \A j \in 1..Len(started) :
        i < j =>
            /\ Declared(started[i]).Layer <= Declared(started[j]).Layer
            /\ Declared(started[i]).Layer = Declared(started[j]).Layer =>
                   DeclIndex(started[i]) < DeclIndex(started[j])

C8_Witness ==
    /\ Len(Config) = 3
    /\ Config[1].Layer = 1
    /\ Config[2].Layer = 1
    /\ Config[3].Layer = 0
    /\ started = <<CheckName(3), CheckName(1), CheckName(2)>>

\* C9: when Run has returned, TotalCount is the length of the declared list,
\* and Results holds the checks handed to executeCheck, in that order, each
\* as declared.
C9_TotalAndExecuted ==
    pc = "done" =>
        /\ result.TotalCount = Len(Config)
        /\ NumResults = Len(started)
        /\ \A i \in 1..NumResults :
              /\ Results[i].Check.Name = started[i]
              /\ Results[i].Check = Declared(started[i])

C9_Witness ==
    /\ pc = "done"
    /\ result.TotalCount = 3
    /\ NumResults = 2
    /\ started = <<CheckName(2), CheckName(1)>>

\* executeCheck's condition for running the Validator, read off a recorded
\* result: Output, ExitCode and ExecutionError are the raw result's
ValidatorDue(e) ==
    /\ e.Result.ExitCode = 0
    /\ e.Result.ExecutionError = ErrNil
    /\ e.Check.Validate # <<>>

\* C12: executeCheck runs the Validator exactly when the final raw result has
\* exit status 0 and no execution error and the check declares a validation
\* spec: then the result carries the Validator's violations for the captured
\* output (two for the broken output, hence FAIL; none for the healthy one,
\* hence PASS); in every other case the result carries no violations and is
\* classified on the execution error and the exit status alone.
C12_ValidatorGate ==
    \A i \in 1..NumResults :
        LET e == Results[i]
            r == e.Result
        IN  /\ ValidatorDue(e) =>
                  /\ r.ValidationErrors = Output(r.Output, e.Check.Validate)
                  /\ r.Output = OutBroken =>
                         (Len(r.ValidationErrors) = 2 /\ r.Outcome = "FAIL")
                  /\ r.Output = OutHealthy =>
                         (r.ValidationErrors = <<>> /\ r.Outcome = "PASS")
            /\ ~ValidatorDue(e) =>
                  /\ r.ValidationErrors = <<>>
                  /\ r.Outcome = IF r.ExecutionError # ErrNil THEN "ERROR"
                                 ELSE OutcomeFromExitCode(r.ExitCode)

C12_Witness ==
    /\ NumResults = 2
    /\ ValidatorDue(Results[1])
    /\ Results[1].Result.Output = OutBroken
    /\ Len(Results[1].Result.ValidationErrors) = 2
    /\ Results[2].Check.Validate # <<>>
    /\ Results[2].Result.ExitCode = 1
    /\ Results[2].Result.Output = OutBroken
    /\ Results[2].Result.ValidationErrors = <<>>

\* C13: once the governing context is cancelled during Run, the attempt in
\* flight ends with an execution error, and no command is started afterwards:
\* neither for a check that had not started nor as a further retry attempt.
C13_CancelStopsRun ==
    [][cancelled =>
          /\ (epc = "running" /\ epc' # "running") => cmdResult'.Error # ErrNil
          /\ epc' = "running" =>
                 (epc = "running" /\ attempts' = attempts /\ idx' = idx)]_vars

\* a text with a reference no template variable resolves
Unresolvable(text) == \E i \in 1..Len(text) : text[i] = "{{.Missing}}"

\* the check's command, or one of its script arguments, has such a reference
SubstitutionFails(c) ==
    \/ Unresolvable(c.Command)
    \/ /\ c.Script # <<>>
       /\ \E a \in 1..Len(c.Script[1].Args) : Unresolvable(c.Script[1].Args[a])

SubstitutionErrors ==
    {"failed to apply template to command", "failed to apply template to script arg 0"}

\* C20: a check whose variable substitution fails gets a CheckResult of its
\* own with the substitution failure as execution error and outcome ERROR,
\* recorded in Results; no command runs for it (no attempt is ever in flight
\* for it, no output, no retry); Run goes on to its normal return with that
\* result recorded; and no other check's result carries a substitution
\* failure.
C20_SubstitutionFailure ==
    /\ \A i \in 1..NumResults :
          LET r == Results[i].Result
          IN  IF SubstitutionFails(Results[i].Check)
              THEN /\ r.Outcome = "ERROR"
                   /\ r.ExecutionError # ErrNil
                   /\ r.ExecutionError.kind \in SubstitutionErrors
                   /\ r.ExitCode = -1
                   /\ r.Output = <<>>
                   /\ r.RetryCount = 0
              ELSE r.ExecutionError.kind \notin SubstitutionErrors
    /\ pc = "exec" => ~SubstitutionFails(checks[idx])
    /\ (Len(started) >= 1 /\ SubstitutionFails(Declared(started[Len(started)]))) =>
          /\ pc = "done"
          /\ NumResults = Len(started)
          /\ Results[NumResults].Check.Name = started[Len(started)]

C20_Witness ==
    /\ pc = "done"
    /\ NumResults = 2
    /\ ~SubstitutionFails(Results[1].Check)
    /\ Results[1].Result.Outcome = "PASS"
    /\ SubstitutionFails(Results[2].Check)
    /\ ~Results[2].Check.Expect = "unset"
    /\ Results[2].Result.Outcome = "ERROR"
    /\ Results[2].Result.ExecutionError.kind = "failed to apply template to script arg 0"
    /\ RunResultExitCode(result) = 2

----------------------------------------------------------------------------
(* main's startup, under SpecMain.                                         *)

\* the check has an inline command, or a script with a path, but not both
ExactlyOneAction(c) ==
    (c.Command # <<>>) # (c.Script # <<>> /\ c.Script[1].Path # "")

Malformed(c) == c.Name = "" \/ ~ExactlyOneAction(c)

\* C19: a configuration holding a check with an empty name, or without
\* exactly one of an inline command and a script with a path (neither, or
\* both), is rejected by the validation: main exits with 2 and no check is
\* executed.
C19_RejectsMalformed ==
    (pc # "validate" /\ \E i \in 1..Len(Config) : Malformed(Config[i])) =>
        /\ pc = "exit2"
        /\ started = <<>>
        /\ result = EmptyRunResult(0)

----------------------------------------------------------------------------
(* The executor, under SpecExec.                                           *)

returned == epc = "returned"

AttemptEvents == SelectSeq(trace, LAMBDA e : e.ev = "attempt")
DelayEvents == SelectSeq(trace, LAMBDA e : e.ev = "delay")

\* every attempt so far ended as a plain exit 1
AlwaysExitsOne ==
    \A k \in 1..Len(trace) :
        trace[k].ev = "attempt" =>
            (trace[k].res.ExitCode = 1 /\ trace[k].res.Error = ErrNil)

\* C10: RunWithRetry with maxRetries = n >= 0, on a command that exits 1 on
\* every attempt, with no cancellation: it returns after n + 1 attempts with
\* exit status 1, the retry delay has elapsed between every two consecutive
\* attempts, and nothing follows the last attempt.
C10_RetryOnFailure ==
    (returned /\ call.retry /\ call.maxRetries >= 0 /\ ~cancelled /\ AlwaysExitsOne) =>
        /\ ret[1].attempts = call.maxRetries + 1
        /\ ret[1].res.ExitCode = 1
        /\ Len(trace) = 2 * call.maxRetries + 1
        /\ \A k \in 1..Len(trace) :
              IF k % 2 = 1
              THEN trace[k].ev = "attempt"
              ELSE /\ trace[k].ev = "delay"
                   /\ trace[k].d = IF call.retryDelay <= 0 THEN 2 ELSE call.retryDelay

C10_Witness ==
    /\ returned
    /\ call.retry
    /\ call.maxRetries = 2
    /\ ~cancelled
    /\ AlwaysExitsOne
    /\ ret[1].attempts = 3
    /\ Len(DelayEvents) = 2

\* the first attempt of the call ended with no execution error and an exit
\* status other than 1
FirstAttemptSettles ==
    /\ Len(trace) >= 1
    /\ trace[1].ev = "attempt"
    /\ trace[1].res.Error = ErrNil
    /\ trace[1].res.ExitCode # 1

\* C11: RunWithRetry makes exactly one attempt, whatever maxRetries is, when
\* the first attempt ends with no execution error and an exit status other
\* than 1: it returns that result with attempt count 1, and no delay and no
\* second attempt follow.
C11_SingleAttempt ==
    (call.retry /\ FirstAttemptSettles) =>
        /\ returned
        /\ ret[1].attempts = 1
        /\ ret[1].res = trace[1].res
        /\ Len(trace) = 1

C11_Witness ==
    /\ returned
    /\ call.retry
    /\ call.maxRetries = MaxRetriesArg
    /\ FirstAttemptSettles
    /\ trace[1].res.ExitCode = 2
    /\ ret[1].attempts = 1

\* the call returned after a cancellation that came once its last attempt was
\* over: it came during the wait that followed
WaitInterrupted ==
    /\ returned
    /\ call.retry
    /\ cancelled
    /\ Len(trace) >= 1
    /\ ~trace[Len(trace)].ctxDone

\* C14: when the cancellation fires while RunWithRetry waits between attempts,
\* it returns without another attempt (nothing follows the last attempt in
\* the history), the returned result is the last attempt's with the
\* cancellation as its Error, and the returned count is the number of
\* attempts made, at most maxRetries.
C14_CancelDuringWait ==
    WaitInterrupted =>
        LET last == trace[Len(trace)]
        IN  /\ last.ev = "attempt"
            /\ ret[1].res = [last.res EXCEPT !.Error = Err("context canceled", "")]
            /\ ret[1].attempts = Len(AttemptEvents)
            /\ ret[1].attempts <= call.maxRetries

C14_Witness ==
    /\ WaitInterrupted
    /\ call.maxRetries = 2
    /\ Len(AttemptEvents) = 2
    /\ Len(DelayEvents) = 1
    /\ trace[Len(trace)].res.ExitCode = 1
    /\ trace[Len(trace)].res.Error = ErrNil
    /\ ret[1].attempts = 2
    /\ ret[1].res.Error = ErrCanceled

\* the attempts RunCommand has made in the call, as events of the history
Attempts == {trace[k] : k \in {j \in 1..Len(trace) : trace[j].ev = "attempt"}}

\* the timeout RunCommand works with: its argument, or 30 seconds
EffectiveTimeout == IF call.timeout <= 0 THEN 30 ELSE call.timeout

\* C15: when the command does not finish within the timeout (the process is
\* killed at the deadline), RunCommand returns exit status -1 and the
\* execution error "command timed out after T", T being the timeout in force.
C15_Timeout ==
    \A a \in Attempts :
        a.proc.kind = "deadline" =>
            /\ a.res.ExitCode = -1
            /\ a.res.Error # ErrNil
            /\ a.res.Error = Err("command timed out after", ToString(EffectiveTimeout))

C15_Witness ==
    /\ returned
    /\ ~call.retry
    /\ call.timeout = 0
    /\ \E a \in Attempts : a.proc.kind = "deadline"
    /\ ret[1].res.ExitCode = -1
    /\ ret[1].res.Error = Err("command timed out after", "30")

\* C16: when the governing context is cancelled before or during a command,
\* RunCommand returns exit status -1 and a non-nil execution error.
C16_CancelIsError ==
    \A a \in Attempts :
        a.ctxDone => (a.res.ExitCode = -1 /\ a.res.Error # ErrNil)

\* C17: when the command terminates normally, RunCommand returns the
\* process's exit code as it is (canonical or not), no execution error, and
\* the captured output.
C17_ExitCodeVerbatim ==
    \A a \in Attempts :
        a.proc.kind = "exited" =>
            /\ a.res.ExitCode = a.proc.code
            /\ a.res.Error = ErrNil
            /\ a.res.Output = a.proc.out

C17_Witness ==
    /\ returned
    /\ ~call.retry
    /\ \E a \in Attempts : a.proc.kind = "exited" /\ a.proc.code = MaxExit
    /\ ret[1].res = [Output |-> OutBroken, ExitCode |-> MaxExit, Error |-> ErrNil]

\* C18: every failure of RunCommand that is neither a timeout nor a normal
\* exit (the shell could not be started, or the process ended without an exit
\* code) gives exit status -1 and a non-nil execution error.
C18_OtherFailureIsError ==
    \A a \in Attempts :
        a.proc.kind \notin {"exited", "deadline"} =>
            (a.res.ExitCode = -1 /\ a.res.Error # ErrNil)


----------------------------------------------------------------------------
(* Script invocations, under SpecScript.                                   *)

\* the check's script resolves to a path that does not exist or is a directory
ScriptNotRunnable(c) ==
    /\ c.Script # <<>>
    /\ FileStatus(ResolvePath(c.Script[1].Path)) # "file"

\* C21: a script invocation whose resolved path does not exist or is a
\* directory produces an execution error with exit status -1 at once, and no
\* process is spawned for it: so for a stand-alone RunScript, and so for a
\* script check executed by Run.
C21_ScriptNotRunnable ==
    /\ (pc = "off" /\ epc # "script" /\ ScriptNotRunnable(Config[1])) =>
          /\ returned
          /\ ret[1].res.Error # ErrNil
          /\ ret[1].res.ExitCode = -1
          /\ trace = <<>>
    /\ pc = "exec" => ~ScriptNotRunnable(checks[idx])
    /\ \A i \in 1..NumResults :
          ScriptNotRunnable(Results[i].Check) =>
              /\ Results[i].Result.ExecutionError # ErrNil
              /\ Results[i].Result.ExitCode = -1

----------------------------------------------------------------------------
(* validate.Output, under SpecValidate.                                    *)

validated == cout # <<>>
violations == cout[1]

\* the configured postconditions of a validation spec
Configured(v) ==
    {p \in {"contains", "not_contains", "regex"} :
        CASE p = "contains" -> v.Contains # <<>>
          [] p = "not_contains" -> v.NotContains # <<>>
          [] OTHER -> v.Regex # <<>>}

\* postcondition p of v fails on output; a malformed pattern fails on any
PostconditionFails(p, v, output) ==
    CASE p = "contains" -> ~\E i \in 0..(Len(output) - Len(v.Contains)) :
                              SubSeq(output, i + 1, i + Len(v.Contains)) = v.Contains
      [] p = "not_contains" -> \E i \in 0..(Len(output) - Len(v.NotContains)) :
                              SubSeq(output, i + 1, i + Len(v.NotContains)) = v.NotContains
      [] OTHER -> \/ ~regexpCompiles(v.Regex)
                  \/ ~regexpMatchString(v.Regex, output)

\* C22: validate.Output checks every configured postcondition on its own: it
\* returns as many violations as configured postconditions fail, a malformed
\* pattern is exactly one violation, and a nil spec has none.
C22_EveryPostcondition ==
    validated =>
        IF cin.v = <<>> THEN violations = <<>>
        ELSE LET v == cin.v[1]
                 failing == {p \in Configured(v) : PostconditionFails(p, v, cin.output)}
                 invalid == {i \in 1..Len(violations) :
                                violations[i] = "invalid regex " \o ToString(v.Regex)}
             IN  /\ Len(violations) = Cardinality(failing)
                 /\ (v.Regex # <<>> /\ ~regexpCompiles(v.Regex)) => Cardinality(invalid) = 1

\* all three postconditions fail at once, the pattern being malformed
C22_Witness ==
    /\ validated
    /\ cin.v # <<>>
    /\ Configured(cin.v[1]) = {"contains", "not_contains", "regex"}
    /\ ~regexpCompiles(cin.v[1].Regex)
    /\ Len(violations) = 3

----------------------------------------------------------------------------
(* The counts and the end of Run, under Spec.                              *)

\* positions of the recorded results with the given outcome
WithOutcome(o) == {i \in 1..NumResults : Results[i].Result.Outcome = o}

NonGatingFails ==
    {i \in WithOutcome(OutcomeFail) : ~Results[i].Result.Gating}

\* C23: GatingFails counts the executed checks with Outcome FAIL and a true
\* gating flag, and nothing else; a FAIL of a non-gating check counts in
\* FailCount only, does not stop the run, and leaves the exit code at 0 when no
\* recorded result is an ERROR or a gating FAIL.
C23_GatingFails ==
    /\ result.GatingFails =
          Cardinality({i \in WithOutcome(OutcomeFail) : Results[i].Result.Gating})
    /\ result.FailCount = result.GatingFails + Cardinality(NonGatingFails)
    /\ (pc = "done" /\ NumResults \in NonGatingFails) =>
          NumResults = result.TotalCount
    /\ (/\ pc = "done"
        /\ WithOutcome(OutcomeError) = {}
        /\ WithOutcome(OutcomeFail) = NonGatingFails) =>
          RunResultExitCode(result) = 0

\* a non-gating check has failed, the run went on to the next check, and the
\* exit code is 0
C23_Witness ==
    /\ pc = "done"
    /\ 1 \in NonGatingFails
    /\ NumResults = 2
    /\ result.FailCount >= 1
    /\ result.GatingFails = 0
    /\ RunResultExitCode(result) = 0

\* Run has returned with fewer results than configured checks
StoppedEarly == pc = "done" /\ NumResults < result.TotalCount

\* C24: Run returns before all configured checks have been executed only by
\* the fail-fast rule: then the last recorded CheckResult is blocking (an ERROR,
\* or a FAIL of a gating check); an error of one check ends the run no other
\* way.
C24_OnlyFailFastStops ==
    StoppedEarly =>
        /\ NumResults >= 1
        /\ LET last == Results[NumResults].Result
           IN  \/ last.Outcome = OutcomeError
               \/ last.Outcome = OutcomeFail /\ last.Gating

\* a check could not be executed, and Run stopped on its ERROR with checks left
C24_Witness ==
    /\ StoppedEarly
    /\ Results[NumResults].Result.ExecutionError # ErrNil
    /\ Results[NumResults].Result.Outcome = OutcomeError

----------------------------------------------------------------------------
(* The outcome and its reason, under SpecClassify.                         *)

\* the text of an OutcomeReason is not empty
NonEmptyText(pieces) == \E i \in 1..Len(pieces) : pieces[i] # ""

\* C25: whatever the exit status, execution error, violations and gating, the
\* CheckResult of ClassifyResult has one of the five outcomes PASS, FAIL, WARN,
\* SKIP, ERROR and an OutcomeReason that is not empty.
C25_OutcomeAndReason ==
    classified =>
        /\ classifiedResult.Outcome \in {"PASS", "FAIL", "WARN", "SKIP", "ERROR"}
        /\ NonEmptyText(classifiedResult.OutcomeReason)

\* an exit status outside the contract, with violations, for a non-gating check
C25_Witness ==
    /\ classified
    /\ cin.exitCode = 127
    /\ cin.execErr = ErrNil
    /\ cin.validationErrors # <<>>
    /\ ~cin.gating
    /\ classifiedResult.Outcome = "ERROR"
    /\ Len(classifiedResult.OutcomeReason) = 3

----------------------------------------------------------------------------
(* The RunResult as it grows, under Spec.                                  *)

\* the CheckResults recorded in a RunResult, in order
CheckResults(r) == [i \in 1..Len(r.Results) |-> r.Results[i].Result]

\* the per-outcome counters of a RunResult
Counters == {"PassCount", "FailCount", "WarnCount", "SkipCount", "ErrorCount",
             "GatingFails"}

\* C26: no step of a run rolls back or alters what a RunResult has recorded:
\* Results grows by appending at most one entry and keeps every CheckResult
\* it had, no per-outcome counter decreases, and the step in which the
\* cancellation arrives leaves the whole RunResult as it was.
C26_RecordedIsKept ==
    [][/\ Len(result'.Results) \in {NumResults, NumResults + 1}
       /\ \A i \in 1..NumResults : CheckResults(result')[i] = CheckResults(result)[i]
       /\ \A c \in Counters : result'[c] >= result[c]
       /\ (cancelled' /\ ~cancelled) => result' = result]_vars

\* a result was recorded, the cancellation arrived, and a later check's
\* result was recorded behind the first, which is still there
C26_Witness ==
    /\ cancelled
    /\ NumResults = 2
    /\ Results[1].Result.Outcome = OutcomePass
    /\ result.PassCount = 1
    /\ Results[2].Result.ExecutionError # ErrNil

----------------------------------------------------------------------------
(* The declared checks during a run, under Spec.                           *)

----------------------------------------------------------------------------
(* The exit code of a check that could not be executed, under Spec.        *)

\* C28: a CheckResult that carries an execution error has the sentinel -1 as
\* its ExitCode.
C28_ErrorHasSentinel ==
    \A i \in 1..NumResults :
        Results[i].Result.ExecutionError # ErrNil => Results[i].Result.ExitCode = -1

----------------------------------------------------------------------------
(* Quoting of script arguments, under SpecQuote.                           *)

quotedArgs == cout # <<>>

\* the single quotes of s before position k
QuotesBefore(s, k) == Cardinality({j \in 1..(k - 1) : s[j] = "'"})

\* where character k of s starts in the quoted text: behind the opening
\* quote, every single quote before it taking five places
QuotedAt(s, k) == 1 + k + 4 * QuotesBefore(s, k)

\* close-quote, double-quoted single quote, open-quote
Splice == <<"'", "\"", "'", "\"", "'">>

\* C29: shellQuote maps the empty string to a pair of single quotes, returns
\* a token without any of the listed metacharacters as it is, and puts any
\* other token between single quotes with the splice in the place of every
\* single quote of the token.
C29_ShellQuote ==
    quotedArgs =>
        \A i \in 1..Len(cin.args) :
            LET s == cin.args[i]
                q == cout[1].quoted[i]
            IN  IF Len(s) = 0 THEN q = <<"'", "'">>
                ELSE IF \A k \in 1..Len(s) : s[k] \notin ShellMeta THEN q = s
                ELSE /\ Len(q) = Len(s) + 2 + 4 * QuotesBefore(s, Len(s) + 1)
                     /\ q[1] = "'"
                     /\ q[Len(q)] = "'"
                     /\ \A k \in 1..Len(s) :
                           IF s[k] = "'"
                           THEN SubSeq(q, QuotedAt(s, k), QuotedAt(s, k) + 4) = Splice
                           ELSE q[QuotedAt(s, k)] = s[k]

\* a token with two single quotes around a letter has been quoted
C29_Witness ==
    /\ quotedArgs
    /\ cin.args = << <<"'", "a", "'">> >>
    /\ Len(cout[1].quoted[1]) = 13

\* the token has a single quote, a blank and a dollar in it
QuoteBlankDollar(s) == \A c \in {"'", " ", "$"} : \E k \in 1..Len(s) : s[k] = c

\* C30: a token with a single quote, a blank and a dollar in it, quoted by
\* shellQuote and read by the shell, is one word, the token itself: so for the
\* quoted text alone, and so in its place in the command of the script.
C30_QuoteRoundTrip ==
    quotedArgs =>
        \A i \in 1..Len(cin.args) :
            QuoteBlankDollar(cin.args[i]) =>
                /\ shWords(cout[1].quoted[i]) = [ok |-> TRUE, words |-> <<cin.args[i]>>]
                /\ LET cmd == shWords(cout[1].command)
                   IN  /\ cmd.ok
                       /\ Len(cmd.words) = Len(cin.args) + 1
                       /\ cmd.words[i + 1] = cin.args[i]

\* the command of a script with two arguments, the first with a single quote,
\* a blank and a dollar, has been built and reads back as path and arguments
C30_Witness ==
    /\ quotedArgs
    /\ Len(cin.args) = 2
    /\ QuoteBlankDollar(cin.args[1])
    /\ shWords(cout[1].command).words = <<cin.path>> \o cin.args

----------------------------------------------------------------------------
(* Termination and the attempt count of RunWithRetry, under SpecExecFair.  *)

\* max(maxRetries, 0) + 1
MostAttempts(n) == (IF n > 0 THEN n ELSE 0) + 1

\* C31: for every maxRetries, the negative ones included, RunWithRetry
\* returns when each of its attempts ends, and the attempt count it returns is
\* at least 1 and at most max(maxRetries, 0) + 1.
C31_Terminates ==
    /\ call.retry => <>returned
    /\ []((returned /\ call.retry) =>
            /\ 1 <= ret[1].attempts
            /\ ret[1].attempts <= MostAttempts(call.maxRetries))

\* a call with a negative maxRetries has returned after its one attempt, a
\* plain exit 1
C31_Witness ==
    /\ returned
    /\ call.retry
    /\ call.maxRetries = -1
    /\ ret[1].attempts = 1
    /\ ret[1].res.ExitCode = 1
    /\ ret[1].res.Error = ErrNil

----------------------------------------------------------------------------
(* Attempts and RetryCount of a check, under Spec.                         *)

\* the last recorded result is that of the executor call whose history trace
\* holds: no later check was handed to executeCheck, and this one got as far
\* as the executor
LastCallRecorded ==
    /\ NumResults >= 1
    /\ Len(started) = NumResults
    /\ ~SubstitutionFails(Results[NumResults].Check)

\* C32: a check whose retry flag is false is attempted exactly once, also
\* when it exits 1 or hits an execution error, and its CheckResult has
\* RetryCount 0; the CheckResult of a check whose retry flag is true has the
\* number of attempts made minus one as its RetryCount.
C32_RetryCount ==
    /\ \A i \in 1..NumResults :
          ~Results[i].Check.Retry => Results[i].Result.RetryCount = 0
    /\ LastCallRecorded =>
          LET last == Results[NumResults]
          IN  /\ ~last.Check.Retry => Len(AttemptEvents) = 1
              /\ last.Check.Retry => last.Result.RetryCount = Len(AttemptEvents) - 1

\* a check with the retry flag has passed on its second attempt, and the
\* check without it that followed has exited 1 and was not tried again
C32_Witness ==
    /\ LastCallRecorded
    /\ NumResults = 2
    /\ Results[1].Check.Retry
    /\ Results[1].Result.RetryCount = 1
    /\ ~Results[2].Check.Retry
    /\ Results[2].Result.ExitCode = 1
    /\ Results[2].Result.RetryCount = 0
    /\ Len(AttemptEvents) = 1

----------------------------------------------------------------------------
(* The attempt RunWithRetry stops at, under SpecExec.                      *)

\* the result of an attempt is retry-worthy: it exits 1, or it errors
RetryWorthy(res) == res.Error # ErrNil \/ res.ExitCode = 1

\* C33: RunWithRetry stops at the first attempt that is not retry-worthy:
\* when the first k attempts (k <= maxRetries) exit 1 or error and attempt
\* k+1 ends with no error and an exit status other than 1, exactly k+1
\* attempts are made and the returned exit status and output are those of
\* attempt k+1.
C33_StopsAtFirstSettled ==
    LET n == Len(AttemptEvents)
    IN  (call.retry /\ n >= 1 /\ ~RetryWorthy(AttemptEvents[n].res)) =>
            /\ \A j \in 1..(n - 1) : RetryWorthy(AttemptEvents[j].res)
            /\ n - 1 <= MostAttempts(call.maxRetries) - 1
            /\ trace[Len(trace)].ev = "attempt"
            /\ returned
            /\ ret[1].attempts = n
            /\ ret[1].res.ExitCode = AttemptEvents[n].res.ExitCode
            /\ ret[1].res.Output = AttemptEvents[n].res.Output
            /\ ret[1].res.Error = ErrNil

\* two attempts exited 1 with the broken output, the third exited 0 with the
\* healthy one, and that is what came back
C33_Witness ==
    /\ returned
    /\ call.retry
    /\ call.maxRetries = 2
    /\ Len(AttemptEvents) = 3
    /\ AttemptEvents[1].res.ExitCode = 1
    /\ AttemptEvents[2].res.ExitCode = 1
    /\ ret[1].attempts = 3
    /\ ret[1].res.ExitCode = 0
    /\ ret[1].res.Output = OutHealthy
    /\ AttemptEvents[1].res.Output # OutHealthy

----------------------------------------------------------------------------
(* The two retry decisions, under SpecClassify.                            *)

\* the CommandResult the executor has in hand for the classifier's arguments
RawResult == [Output |-> <<>>, ExitCode |-> cin.exitCode, Error |-> cin.execErr]

\* C34: the executor's retry decision on a CommandResult, exec.shouldRetry,
\* is the classifier's recommendation CheckResult.ShouldRetry on the
\* CheckResult of the same exit status and execution error, for every exit
\* status, with and without an execution error.
C34_RetryDecisionsAgree ==
    classified => (shouldRetry(RawResult) <=> ShouldRetry(classifiedResult))

\* both say retry for a plain exit 1, which the classifier turned into FAIL
C34_Witness ==
    /\ classified
    /\ cin.exitCode = 1
    /\ cin.execErr = ErrNil
    /\ classifiedResult.Outcome = "FAIL"
    /\ shouldRetry(RawResult)
    /\ ShouldRetry(classifiedResult)

----------------------------------------------------------------------------
(* The pairs of a RunResult, under Spec.                                   *)

\* the CheckResult r is one that executing check c can have produced: it has
\* c's gating flag, a substitution error exactly when c's texts do not
\* resolve, violations only when c declares a validation spec, and retries
\* only when c has the retry flag
ProducedBy(r, c) ==
    /\ r.Gating = IsGating(c)
    /\ SubstitutionFails(c) <=> r.ExecutionError.kind \in SubstitutionErrors
    /\ r.ValidationErrors # <<>> => c.Validate # <<>>
    /\ r.RetryCount > 0 => c.Retry

\* C35: for every i, Results[i] pairs the check that was executed i-th in
\* sorted order with the CheckResult of executing that very check; the Check
\* of an earlier entry is not replaced by a later check.
C35_PairsStay ==
    \A i \in 1..NumResults :
        /\ Results[i].Check = sortByLayer(Config)[i]
        /\ Results[i].Check.Name = started[i]
        /\ ProducedBy(Results[i].Result, Results[i].Check)

\* two checks declared in the other order than their layers have both run:
\* a non-gating one that failed, then a gating one
C35_Witness ==
    /\ pc = "done"
    /\ NumResults = 2
    /\ sortByLayer(Config) # Config
    /\ Results[1].Check.Name = "c2"
    /\ Results[2].Check.Name = "c1"
    /\ ~Results[1].Result.Gating
    /\ Results[1].Result.Outcome = OutcomeFail
    /\ Results[2].Result.Gating

----------------------------------------------------------------------------
(* Violations and outcomes in a RunResult, under Spec.                     *)

\* C36: a CheckResult recorded by Run that has validation violations has
\* ExitCode 0, no execution error and Outcome FAIL; violations never come with
\* an ERROR, SKIP, WARN or PASS.
C36_ViolationsMeanFail ==
    \A i \in 1..NumResults :
        Results[i].Result.ValidationErrors # <<>> =>
            /\ Results[i].Result.ExitCode = 0
            /\ Results[i].Result.ExecutionError = ErrNil
            /\ Results[i].Result.Outcome = "FAIL"
            /\ Results[i].Result.Outcome \notin {"ERROR", "SKIP", "WARN", "PASS"}

\* a check with a validation spec has exited 0 with the broken output
C36_Witness ==
    /\ NumResults >= 1
    /\ Results[1].Check.Validate # <<>>
    /\ Len(Results[1].Result.ValidationErrors) = 2
    /\ Results[1].Result.ExitCode = 0
    /\ Results[1].Result.Output = OutBroken
    /\ Results[1].Result.Outcome = "FAIL"

----------------------------------------------------------------------------
(* The counters of a RunResult, under Spec.                                *)

\* C37: at every point of Run and after it, the five outcome counters add
\* up to the number of entries of Results, which is at most TotalCount, and
\* GatingFails is at most FailCount.
C37_CountersAddUp ==
    /\ result.PassCount + result.FailCount + result.WarnCount
          + result.SkipCount + result.ErrorCount = NumResults
    /\ NumResults <= result.TotalCount
    /\ result.GatingFails <= result.FailCount

\* a finished run with a passed check and a check that could not be executed
C37_Witness ==
    /\ pc = "done"
    /\ NumResults = 2
    /\ result.TotalCount = 2
    /\ result.PassCount = 1
    /\ result.ErrorCount = 1
    /\ result.FailCount = 0

\* positions of the recorded results that are blocking: an ERROR, or a FAIL
\* of a gating check
BlockingResults ==
    WithOutcome(OutcomeError)
        \cup {i \in WithOutcome(OutcomeFail) : Results[i].Result.Gating}

\* C38: a RunResult of Run has at most one blocking CheckResult, and that
\* one is the last entry of Results; so ErrorCount + GatingFails is at most 1
\* and no run has both an ERROR and a gating FAIL.
C38_OneBlockingResult ==
    /\ Cardinality(BlockingResults) <= 1
    /\ BlockingResults \subseteq {NumResults}
    /\ result.ErrorCount + result.GatingFails <= 1
    /\ ~(result.ErrorCount > 0 /\ result.GatingFails > 0)

\* a non-gating check has failed and the gating check behind it as well
C38_Witness ==
    /\ pc = "done"
    /\ NumResults = 2
    /\ 1 \in NonGatingFails
    /\ BlockingResults = {2}
    /\ result.GatingFails = 1
    /\ result.FailCount = 2

\* C39: when the RunResult that Run returns has exit code 0, every
\* configured check has been executed and no recorded result is an ERROR or a
\* gating FAIL; a run that stopped early does not have exit code 0.
C39_ZeroMeansAllRan ==
    /\ (pc = "done" /\ RunResultExitCode(result) = 0) =>
          /\ NumResults = result.TotalCount
          /\ NumResults = Len(Config)
          /\ BlockingResults = {}
    /\ StoppedEarly => RunResultExitCode(result) # 0

\* all three checks of a configuration have run, one with a warning, and the
\* exit code is 0
C39_Witness ==
    /\ pc = "done"
    /\ Len(Config) = 3
    /\ NumResults = 3
    /\ result.WarnCount >= 1
    /\ RunResultExitCode(result) = 0

============================================================================
